---- MODULE Spec2Model ----
(***************************************************************************)
(* Model of Dash5.py: the CSV load-and-shape pipeline (module level code), *)
(* top_companies, and the five Dash callbacks with the reactive dispatch   *)
(* declared by their @app.callback Input/Output lists.                     *)
(*                                                                         *)
(* Column names: the source's Chinese labels are written with the English  *)
(* names market, credit, operational, legal_compliance, technical and      *)
(* composite; the sentinels of lines 47 and 49 are "ALL" and               *)
(* "UNSPECIFIED".                                                          *)
(***************************************************************************)
EXTENDS Integers, Sequences, FiniteSets, TLC

VARIABLES
    pc,            \* "read" | "failed" | "loaded" | "serving" | "top"
    raw,           \* the DataFrame raw: [columns, rows]
    wide,          \* the shaped table: sequence of rows (<<>> before load)
    YEARS,         \* sorted distinct years of wide
    error,         \* the exception that stopped the module or a callback
    session,       \* TRUE once a browser has loaded the page
    rendered,      \* TRUE once main-content holds the controls and graphs
    theme,         \* theme-switch.value
    year,          \* year.value
    company,       \* company.value
    industry,      \* industry-filter.value
    compare,       \* companies_compare.value (a list)
    metric,        \* compare_metric.value
    companyOpts,   \* company.options (values, in order)
    industryOpts,  \* industry-filter.options
    compareOpts,   \* companies_compare.options
    radar,         \* radar.figure
    bars,          \* bars.figure
    heatmap,       \* heatmap.figure
    trigger,       \* the control whose change started the last round
    fired,         \* the callbacks run in the last round
    companyFor,    \* year for which company.value was chosen or reset
    compareFor,    \* year for which companies_compare.value was chosen
    staleRadar,    \* _radar has run on a company.value chosen for a year
                   \* other than the year.value it ran on
    staleBars,     \* the same of _bars and companies_compare.value
    topArgs,       \* arguments <<year, n>> of the last direct top_companies
                   \* call (<<>> when there was none)
    topResult      \* its result

vars == <<pc, raw, wide, YEARS, error, session, rendered, theme,
          year, company, industry, compare, metric, companyOpts,
          industryOpts, compareOpts, radar, bars, heatmap, trigger, fired,
          companyFor, compareFor, staleRadar, staleBars, topArgs, topResult>>

tableVars == <<raw, wide, YEARS>>
viewVars == <<session, rendered, theme, year, company, industry, compare,
              metric, companyOpts, industryOpts, compareOpts, radar, bars,
              heatmap, trigger, fired, companyFor, compareFor, staleRadar,
              staleBars>>
topVars == <<topArgs, topResult>>

\* ---------------------------------------------------------------- bounds
MaxRows == 2      \* rows of the CSV
MaxN == 3         \* largest n of a direct top_companies call
MaxTopRows == 3   \* rows of the CSVs of the direct top_companies calls
MaxLoadRows == 1  \* rows of the CSVs whose header is unconstrained

\* ------------------------------------------------------- program constants
DefaultN == 8     \* top_companies(year, n=8); min(8, len(dfy))

None == "None"
NoError == [type |-> "none"]        \* no exception has been raised
NoFigure == [kind |-> "none"]       \* a dcc.Graph with no figure yet
EmptyFigure == [kind |-> "empty"]   \* go.Figure()

YEAR_SENTINEL == "ALL"
INDUSTRY_SENTINEL == "UNSPECIFIED"

required == {"company", "RD_0", "RD_1", "RD_2", "RD_3", "RD_4", "RD_5", "RD_6"}

CATS == <<"market", "credit", "operational", "legal_compliance", "technical">>

theme_colors ==
    [light |-> [background |-> "white", text |-> "black"],
     dark  |-> [background |-> "#2E2E2E", text |-> "white"]]

\* ------------------------------------------------------------ input data
\* A column label as read from the header: the name with leading and
\* trailing blanks counted.
Label(lead, name, trail) == [lead |-> lead, name |-> name, trail |-> trail]

\* Mutant of strip: the label is left as read.
strip_none(c) == c

\* str.strip() on a column label.
strip(c) == [lead |-> 0, name |-> c.name, trail |-> 0]

\* The label pandas matches against the string literal s.
Lit(s) == Label(0, s, 0)

AllColumns == required \cup {"year", "industry"}

PadStyles == {<<0, 0>>, <<1, 0>>, <<0, 2>>, <<1, 1>>}

\* Rows a CSV can hold (complete records; a CSV without a column drops it).
RowPool ==
    { [company |-> "A", year |-> "2021", industry |-> "I1",
       RD_0 |-> 1, RD_1 |-> 2, RD_2 |-> 3, RD_3 |-> 4, RD_4 |-> 5,
       RD_5 |-> 6, RD_6 |-> 7],
      [company |-> "B", year |-> "2021", industry |-> "I2",
       RD_0 |-> -1, RD_1 |-> 0, RD_2 |-> -2, RD_3 |-> 4, RD_4 |-> 0,
       RD_5 |-> -1, RD_6 |-> 0],
      [company |-> "A", year |-> "2022", industry |-> "I1",
       RD_0 |-> 0, RD_1 |-> 1, RD_2 |-> 0, RD_3 |-> 2, RD_4 |-> 1,
       RD_5 |-> 1, RD_6 |-> 0] }

\* The rows of the direct top_companies calls: RowPool and a row whose
\* composite equals that of the first row.
TiePool ==
    RowPool \cup
    { [company |-> "C", year |-> "2021", industry |-> "I1",
       RD_0 |-> 7, RD_1 |-> 6, RD_2 |-> 5, RD_3 |-> 4, RD_4 |-> 3,
       RD_5 |-> 2, RD_6 |-> 1] }

\* A year.value no row has.
NoSuchYear == "1999"

\* The sort key list.sort() compares the year values by.
YearKey == [y \in {"2021", "2022", YEAR_SENTINEL} |->
              CASE y = "2021" -> 2021 [] y = "2022" -> 2022 [] OTHER -> 0]

Range(s) == {s[k] : k \in 1..Len(s)}

SeqsUpTo(S, n) == UNION {[1..k -> S] : k \in 0..n}

Restrict(r, names) == [n \in names |-> r[n]]

\* What read_csv_smart returns: the header labels as written and the rows.
read_csv_smart(present, pad, rows) ==
    [columns |-> {Label(pad[1], n, pad[2]) : n \in present},
     rows |-> [i \in 1..Len(rows) |-> Restrict(rows[i], present)]]

Headers == SUBSET AllColumns

\* The CSVs with a header drawn from H and at most n rows drawn from P.
Sources(H, P, n) ==
    { read_csv_smart(present, pad, rows) :
        present \in H, pad \in PadStyles, rows \in SeqsUpTo(P, n) }

\* ------------------------------------------------------ rational numbers
\* A score is an exact fraction [num, den] with den > 0.
Int2Q(i) == [num |-> i, den |-> 1]
QLess(a, b) == a.num * b.den < b.num * a.den
QEq(a, b) == a.num * b.den = b.num * a.den
Zero == Int2Q(0)

RECURSIVE SumSeq(_)
SumSeq(s) == IF s = <<>> THEN 0 ELSE Head(s) + SumSeq(Tail(s))

\* DataFrame.mean(axis=1) over integer columns.
Mean(s) == [num |-> SumSeq(s), den |-> Len(s)]

\* ------------------------------------------------------ load and shape
\* Lines 39-44: strip the header, then the required-column check.
StrippedColumns(df) == {strip(c) : c \in df.columns}

missing(df) == {n \in required : Lit(n) \notin StrippedColumns(df)}

\* Mutant of Derive: the technical category adds RD_5 instead of RD_6.
Derive_wrong_column(r) ==
    [c \in DOMAIN r \cup {"year", "industry"} \cup Range(CATS) |->
        CASE c = "year" -> IF "year" \in DOMAIN r THEN r.year
                           ELSE YEAR_SENTINEL
          [] c = "industry" -> IF "industry" \in DOMAIN r THEN r.industry
                               ELSE INDUSTRY_SENTINEL
          [] c = "market" -> r.RD_0
          [] c = "credit" -> r.RD_1
          [] c = "operational" -> r.RD_2 + r.RD_5
          [] c = "legal_compliance" -> r.RD_3
          [] c = "technical" -> r.RD_4 + r.RD_5
          [] OTHER -> r[c]]

\* Lines 46-55: backfill year and industry, add the five category columns
\* to raw (the RD columns stay).
Derive(r) ==
    [c \in DOMAIN r \cup {"year", "industry"} \cup Range(CATS) |->
        CASE c = "year" -> IF "year" \in DOMAIN r THEN r.year
                           ELSE YEAR_SENTINEL
          [] c = "industry" -> IF "industry" \in DOMAIN r THEN r.industry
                               ELSE INDUSTRY_SENTINEL
          [] c = "market" -> r.RD_0
          [] c = "credit" -> r.RD_1
          [] c = "operational" -> r.RD_2 + r.RD_5
          [] c = "legal_compliance" -> r.RD_3
          [] c = "technical" -> r.RD_4 + r.RD_6
          [] OTHER -> r[c]]

WideColumns == {"company", "year", "industry"} \cup Range(CATS)

\* Lines 57-58 and 64: wide = raw[[...]].copy(); the composite column is
\* wide[CATS].mean(axis=1).
WideRow(r) ==
    [c \in WideColumns \cup {"composite"} |->
        IF c = "composite" THEN Mean([k \in 1..Len(CATS) |-> r[CATS[k]]])
        ELSE r[c]]

\* The value of a metric column of a shaped row, as a fraction.
Val(row, m) == IF m = "composite" THEN row.composite ELSE Int2Q(row[m])

\* ------------------------------------------------------ sequence helpers
RECURSIVE Filter(_, _)
\* The sub-sequence of the indices idx whose flag in keep is TRUE.
Filter(idx, keep) ==
    IF idx = <<>> THEN <<>>
    ELSE IF keep[Head(idx)] THEN <<Head(idx)>> \o Filter(Tail(idx), keep)
         ELSE Filter(Tail(idx), keep)

RECURSIVE Unique(_)
\* pd.unique / Series.unique: distinct values in order of first appearance.
Unique(s) ==
    IF s = <<>> THEN <<>>
    ELSE LET u == Unique(SubSeq(s, 1, Len(s) - 1))
             x == s[Len(s)]
         IN IF \E k \in 1..Len(u) : u[k] = x THEN u ELSE Append(u, x)

head(s, n) == SubSeq(s, 1, IF n < Len(s) THEN n ELSE Len(s))

Min(a, b) == IF a < b THEN a ELSE b

\* The orders in which a sort that is not stable can leave rows of equal
\* key: the original one or another one.
TieOrders == {"original", "reversed"}

RECURSIVE InsertSorted(_, _, _, _, _)
\* Insert index i into the sorted index list s; Before(a, b) on row indices
\* is given by the key list, the direction and the tie order.
InsertSorted(s, i, key, asc, tie) ==
    LET Before(a, b) ==
            IF QEq(key[a], key[b])
            THEN IF tie = "original" THEN a < b ELSE a > b
            ELSE IF asc THEN QLess(key[a], key[b]) ELSE QLess(key[b], key[a])
    IN IF s = <<>> THEN <<i>>
       ELSE IF Before(i, Head(s)) THEN <<i>> \o s
            ELSE <<Head(s)>> \o InsertSorted(Tail(s), i, key, asc, tie)

RECURSIVE sort_values(_, _, _, _)
\* DataFrame.sort_values(by, ascending) with the default kind="quicksort",
\* which pandas documents as not stable: rows with equal keys come out in
\* an order the call does not fix (tie).  idx are row indices of wide,
\* key[i] the sort key of row i.
sort_values(idx, key, asc, tie) ==
    IF idx = <<>> THEN <<>>
    ELSE InsertSorted(sort_values(Tail(idx), key, asc, tie), Head(idx),
                      key, asc, tie)

\* ------------------------------------------------------ table queries
Rows == [i \in 1..Len(wide) |-> i]

\* wide[wide["year"] == year]
OfYear(y) == Filter(Rows, [i \in 1..Len(wide) |-> wide[i].year = y])

KeyOf(m) == [i \in 1..Len(wide) |-> Val(wide[i], m)]

Column(idx, c) == [k \in 1..Len(idx) |-> wide[idx[k]][c]]

\* Lines 61-62: YEARS = list(pd.unique(wide["year"])); YEARS.sort()
RECURSIVE SortYears(_)
SortYears(S) ==
    IF S = {} THEN <<>>
    ELSE LET m == CHOOSE y \in S : \A z \in S : YearKey[y] <= YearKey[z]
         IN <<m>> \o SortYears(S \ {m})

YearsOf(w) == SortYears({w[i].year : i \in 1..Len(w)})

\* Lines 66-68.
top_companies(y, n, tie) ==
    LET dfy == sort_values(OfYear(y), KeyOf("composite"), FALSE, tie)
    IN head(Column(dfy, "company"), n)

\* ------------------------------------------------------ callbacks
Colors(is_dark) == IF is_dark THEN theme_colors.dark ELSE theme_colors.light

\* Series.round(2) of a fraction: the nearest multiple of 1/100.
Round2(q) == [num |-> (200 * q.num + q.den) \div (2 * q.den), den |-> 100]

\* Mutant of toggle_theme: the year dropdown starts on the first year.
toggle_theme_first_year(is_dark) ==
    [style |-> Colors(is_dark),
     year |-> YEARS[1],
     company |-> None, companyOpts |-> <<>>,
     industry |-> None, industryOpts |-> <<>>,
     compare |-> <<>>, compareOpts |-> <<>>,
     metric |-> "composite"]

\* Lines 98-159: the controls and graphs toggle_theme puts in main-content,
\* each with the value written in the layout.
toggle_theme(is_dark) ==
    [style |-> Colors(is_dark),
     year |-> YEARS[Len(YEARS)],
     company |-> None, companyOpts |-> <<>>,
     industry |-> None, industryOpts |-> <<>>,
     compare |-> <<>>, compareOpts |-> <<>>,
     metric |-> "composite"]

\* Mutant of _options_by_year: the option lists are not restricted to the
\* rows of the year.
_options_by_year_all_rows(y, tie) ==
    LET dfy == OfYear(y)
        opts == Unique(Column(Rows, "company"))
    IN IF dfy = <<>>
       THEN [companyOpts |-> <<>>, company |-> None,
             industryOpts |-> <<>>, industry |-> None,
             compareOpts |-> <<>>, compare |-> <<>>]
       ELSE LET sorted == sort_values(dfy, KeyOf("composite"), FALSE, tie)
                default_company == wide[sorted[1]].company
                default_compare == top_companies(y, Min(DefaultN, Len(dfy)), tie)
                industry_opts == Unique(Column(Rows, "industry"))
            IN [companyOpts |-> opts, company |-> default_company,
                industryOpts |-> industry_opts, industry |-> None,
                compareOpts |-> opts, compare |-> default_compare]

\* Lines 171-179.
_options_by_year(y, tie) ==
    LET dfy == OfYear(y)
        opts == Unique(Column(dfy, "company"))
    IN IF dfy = <<>>
       THEN [companyOpts |-> <<>>, company |-> None,
             industryOpts |-> <<>>, industry |-> None,
             compareOpts |-> <<>>, compare |-> <<>>]
       ELSE LET sorted == sort_values(dfy, KeyOf("composite"), FALSE, tie)
                default_company == wide[sorted[1]].company
                default_compare == top_companies(y, Min(DefaultN, Len(dfy)), tie)
                industry_opts == Unique(Column(dfy, "industry"))
            IN [companyOpts |-> opts, company |-> default_company,
                industryOpts |-> industry_opts, industry |-> None,
                compareOpts |-> opts, compare |-> default_compare]

\* Lines 188-215.
_radar(y, c, is_dark) ==
    LET dfy == Filter(Rows, [i \in 1..Len(wide) |->
                                wide[i].year = y /\ wide[i].company = c])
        r == IF dfy = <<>> THEN [k \in 1..Len(CATS) |-> 0]
             ELSE [k \in 1..Len(CATS) |-> wide[dfy[1]][CATS[k]]]
    IN [kind |-> "radar",
        r |-> r \o <<r[1]>>,
        theta |-> CATS \o <<CATS[1]>>,
        name |-> c,
        title |-> <<c, y>>,
        colors |-> Colors(is_dark)]

\* Lines 225-252.
_bars(y, companies, m, is_dark, tie) ==
    LET dfy == Filter(OfYear(y), [i \in 1..Len(wide) |->
                                    wide[i].company \in Range(companies)])
    IN IF dfy = <<>> THEN EmptyFigure
       ELSE LET sorted == sort_values(dfy, KeyOf(m), TRUE, tie)
            IN [kind |-> "bar",
                x |-> [k \in 1..Len(sorted) |-> Val(wide[sorted[k]], m)],
                y |-> Column(sorted, "company"),
                color |-> [k \in 1..Len(sorted) |->
                             IF QLess(Val(wide[sorted[k]], m), Zero)
                             THEN "neg" ELSE "pos"],
                text |-> [k \in 1..Len(sorted) |->
                             Round2(Val(wide[sorted[k]], m))],
                title |-> <<y, m>>,
                colors |-> Colors(is_dark)]

\* Mutant of _heatmap: no empty figure for a year without rows.
_heatmap_no_empty_check(y, is_dark) ==
    LET dfy == OfYear(y)
    IN [kind |-> "heatmap",
        z |-> [k \in 1..Len(CATS) |-> Column(dfy, CATS[k])],
        title |-> y,
        colors |-> Colors(is_dark)]

\* Mutant of _heatmap: only the rows of the industry filter are shown.
_heatmap_by_industry(y, is_dark) ==
    LET dfy == Filter(OfYear(y), [i \in 1..Len(wide) |->
                                    industry = None
                                    \/ wide[i].industry = industry])
    IN IF dfy = <<>> THEN EmptyFigure
       ELSE [kind |-> "heatmap",
             z |-> [k \in 1..Len(CATS) |-> Column(dfy, CATS[k])],
             title |-> y,
             colors |-> Colors(is_dark)]

\* Lines 260-276.
_heatmap(y, is_dark) ==
    LET dfy == OfYear(y)
    IN IF dfy = <<>> THEN EmptyFigure
       ELSE [kind |-> "heatmap",
             z |-> [k \in 1..Len(CATS) |-> Column(dfy, CATS[k])],
             title |-> y,
             colors |-> Colors(is_dark)]

\* ------------------------------------------------------ callback graph
Callbacks == {"toggle_theme", "_options_by_year", "_radar", "_bars", "_heatmap"}

\* The order in which the source registers them.
Order(cb) ==
    CASE cb = "toggle_theme" -> 1 [] cb = "_options_by_year" -> 2
      [] cb = "_radar" -> 3 [] cb = "_bars" -> 4 [] cb = "_heatmap" -> 5

\* The Input(...) lists of the @app.callback decorators.
Inputs(cb) ==
    CASE cb = "toggle_theme" -> {"theme-switch.value"}
      [] cb = "_options_by_year" -> {"year.value"}
      [] cb = "_radar" -> {"year.value", "company.value", "theme-switch.value"}
      [] cb = "_bars" -> {"year.value", "companies_compare.value",
                          "compare_metric.value", "theme-switch.value"}
      [] cb = "_heatmap" -> {"year.value", "theme-switch.value"}

\* The Output(...) lists of the @app.callback decorators.
Outputs(cb) ==
    CASE cb = "toggle_theme" -> {"main-content.children"}
      [] cb = "_options_by_year" ->
            {"company.options", "company.value", "industry-filter.options",
             "industry-filter.value", "companies_compare.options",
             "companies_compare.value"}
      [] cb = "_radar" -> {"radar.figure"}
      [] cb = "_bars" -> {"bars.figure"}
      [] cb = "_heatmap" -> {"heatmap.figure"}

\* Lines 79-91: the static layout holds only theme-switch and main-content;
\* every other component exists once toggle_theme has filled main-content.
InLayout(prop, isRendered) ==
    prop \in {"theme-switch.value", "main-content.children"} \/ isRendered

Dependents(prop) == {cb \in Callbacks : prop \in Inputs(cb)}

\* The callbacks a change of prop requests: those declared on it whose
\* components are in the layout.
Requested(prop, isRendered) ==
    {cb \in Dependents(prop) :
        \A q \in Inputs(cb) \cup Outputs(cb) : InLayout(q, isRendered)}

\* A requested callback waits while another requested callback is still to
\* write one of its inputs.
Blocked(cb, waiting) ==
    \E other \in waiting \ {cb} : Outputs(other) \cap Inputs(cb) # {}

\* ------------------------------------------------------ the view
\* The components' properties, the callbacks still to run (pending) and the
\* record of the round.
View ==
    [rendered |-> rendered, theme |-> theme, year |-> year,
     company |-> company, industry |-> industry, compare |-> compare,
     metric |-> metric, companyOpts |-> companyOpts,
     industryOpts |-> industryOpts, compareOpts |-> compareOpts,
     radar |-> radar, bars |-> bars, heatmap |-> heatmap, error |-> error,
     companyFor |-> companyFor, compareFor |-> compareFor,
     staleRadar |-> staleRadar, staleBars |-> staleBars,
     pending |-> {}, fired |-> {}]

\* toggle_theme runs and main-content.children is replaced: the controls
\* and graphs are created anew with their layout values, and the callbacks
\* of the new components are requested.  With no row in the table
\* YEARS[-1] raises IndexError and main-content stays as it was.
Run_toggle_theme(v) ==
    IF YEARS = <<>>
    THEN [v EXCEPT !.error = [type |-> "IndexError"],
                   !.pending = @ \ {"toggle_theme"},
                   !.fired = @ \cup {"toggle_theme"}]
    ELSE LET new == toggle_theme(v.theme)
         IN [v EXCEPT !.rendered = TRUE,
                      !.year = new.year,
                      !.company = new.company,
                      !.companyOpts = new.companyOpts,
                      !.industry = new.industry,
                      !.industryOpts = new.industryOpts,
                      !.compare = new.compare,
                      !.compareOpts = new.compareOpts,
                      !.metric = new.metric,
                      !.radar = NoFigure, !.bars = NoFigure,
                      !.heatmap = NoFigure,
                      !.companyFor = None, !.compareFor = None,
                      !.pending = (@ \ {"toggle_theme"}) \cup
                                  (Callbacks \ {"toggle_theme"}),
                      !.fired = @ \cup {"toggle_theme"}]

\* Mutant of Run_options_by_year: the option lists are regenerated but the
\* selections are left as they were.
Run_options_by_year_keep_values(v, tie) ==
    LET out == _options_by_year(v.year, tie)
    IN [v EXCEPT !.companyOpts = out.companyOpts,
                 !.industryOpts = out.industryOpts,
                 !.compareOpts = out.compareOpts,
                 !.pending = (@ \ {"_options_by_year"}) \cup
                             Dependents("company.value") \cup
                             Dependents("companies_compare.value"),
                 !.fired = @ \cup {"_options_by_year"}]

\* _options_by_year runs; company.value and companies_compare.value are
\* written, so the callbacks declared on them are requested.
Run_options_by_year(v, tie) ==
    LET out == _options_by_year(v.year, tie)
    IN [v EXCEPT !.companyOpts = out.companyOpts,
                 !.company = out.company,
                 !.industryOpts = out.industryOpts,
                 !.industry = out.industry,
                 !.compareOpts = out.compareOpts,
                 !.compare = out.compare,
                 !.companyFor = v.year, !.compareFor = v.year,
                 !.pending = (@ \ {"_options_by_year"}) \cup
                             Dependents("company.value") \cup
                             Dependents("companies_compare.value"),
                 !.fired = @ \cup {"_options_by_year"}]

Run_radar(v) ==
    [v EXCEPT !.radar = _radar(v.year, v.company, v.theme),
              !.staleRadar = @ \/ v.companyFor # v.year,
              !.pending = @ \ {"_radar"},
              !.fired = @ \cup {"_radar"}]

Run_bars(v, tie) ==
    [v EXCEPT !.bars = _bars(v.year, v.compare, v.metric, v.theme, tie),
              !.staleBars = @ \/ v.compareFor # v.year,
              !.pending = @ \ {"_bars"},
              !.fired = @ \cup {"_bars"}]

Run_heatmap(v) ==
    [v EXCEPT !.heatmap = _heatmap(v.year, v.theme),
              !.pending = @ \ {"_heatmap"},
              !.fired = @ \cup {"_heatmap"}]

\* The callbacks that write no input of another callback (the figures) and
\* those that do.
Writers == {cb \in Callbacks : Outputs(cb) = {"main-content.children"}
                                \/ \E c \in Callbacks :
                                      Outputs(cb) \cap Inputs(c) # {}}

\* The requested callbacks that may run now.  Two callbacks that may both
\* run write different properties and read none the other writes, except
\* that toggle_theme replaces what the figure callbacks read and write; so
\* the schedule taken is the one in which a figure callback that may run
\* before a writer does: it then runs on every input it can run on.
Ready(waiting) ==
    LET free == {c \in waiting : ~Blocked(c, waiting)}
    IN IF free \ Writers # {} THEN free \ Writers ELSE free

\* The views one run of a ready callback leads to.
Steps(v) ==
    LET cb == CHOOSE c \in Ready(v.pending) :
                 \A d \in Ready(v.pending) : Order(c) <= Order(d)
    IN CASE cb = "toggle_theme" -> {Run_toggle_theme(v)}
         [] cb = "_options_by_year" ->
               {Run_options_by_year(v, tie) : tie \in TieOrders}
         [] cb = "_radar" -> {Run_radar(v)}
         [] cb = "_bars" -> {Run_bars(v, tie) : tie \in TieOrders}
         [] cb = "_heatmap" -> {Run_heatmap(v)}

RECURSIVE Settle(_)
\* The views a round can end in, from the views V it can be in: the
\* requested callbacks run, in any order that lets none run while it waits,
\* until none is left.
Settle(V) ==
    LET done == {v \in V : v.pending = {}}
        busy == V \ done
    IN IF busy = {} THEN V
       ELSE Settle(done \cup UNION {Steps(v) : v \in busy})

\* ------------------------------------------------------ initial state
NoView ==
    /\ session = FALSE /\ rendered = FALSE /\ theme = FALSE
    /\ year = None /\ company = None /\ industry = None
    /\ compare = <<>> /\ metric = None
    /\ companyOpts = <<>> /\ industryOpts = <<>> /\ compareOpts = <<>>
    /\ radar = NoFigure /\ bars = NoFigure /\ heatmap = NoFigure
    /\ trigger = None /\ fired = {}
    /\ companyFor = None /\ compareFor = None
    /\ staleRadar = FALSE /\ staleBars = FALSE

\* Line 38 has run: raw is what read_csv_smart returned.
Init ==
    /\ pc = "read"
    /\ raw \in Sources({h \in Headers : required \subseteq h}, RowPool, MaxRows)
    /\ wide = <<>> /\ YEARS = <<>> /\ error = NoError
    /\ NoView
    /\ topArgs = <<>> /\ topResult = <<>>

\* ------------------------------------------------------ module level code
\* Lines 39-64: strip the header; stop with ValueError when a required
\* column is missing; otherwise backfill, derive and build wide and YEARS.
Load ==
    /\ pc = "read"
    /\ IF missing(raw) # {}
       THEN /\ pc' = "failed"
            /\ error' = [type |-> "ValueError", missing |-> missing(raw)]
            /\ raw' = [raw EXCEPT !.columns = StrippedColumns(raw)]
            /\ UNCHANGED <<wide, YEARS>>
       ELSE LET rows == [i \in 1..Len(raw.rows) |-> Derive(raw.rows[i])]
                w == [i \in 1..Len(rows) |-> WideRow(rows[i])]
            IN /\ pc' = "loaded"
               /\ raw' = [columns |-> StrippedColumns(raw)
                                        \cup {Lit(c) : c \in WideColumns},
                          rows |-> rows]
               /\ wide' = w
               /\ YEARS' = YearsOf(w)
               /\ UNCHANGED error
    /\ UNCHANGED <<viewVars, topVars>>

\* Lines 71-72 and 279-284: the app object exists and is served.
RunServer ==
    /\ pc = "loaded"
    /\ pc' = "serving"
    /\ UNCHANGED <<tableVars, error, viewVars, topVars>>

\* ------------------------------------------------------ control changes
\* The round a change of prop starts: v is the view with the new value
\* written; the callbacks the change requests run until none is left, and
\* the browser shows the view the round ends in.  why names the change.
Round(why, prop, v) ==
    /\ \E f \in Settle({[v EXCEPT !.pending = Requested(prop, v.rendered)]}) :
        /\ rendered' = f.rendered /\ theme' = f.theme /\ year' = f.year
        /\ company' = f.company /\ industry' = f.industry
        /\ compare' = f.compare /\ metric' = f.metric
        /\ companyOpts' = f.companyOpts /\ industryOpts' = f.industryOpts
        /\ compareOpts' = f.compareOpts
        /\ radar' = f.radar /\ bars' = f.bars /\ heatmap' = f.heatmap
        /\ error' = f.error
        /\ companyFor' = f.companyFor /\ compareFor' = f.compareFor
        /\ fired' = f.fired
        /\ staleRadar' = f.staleRadar /\ staleBars' = f.staleBars
    /\ trigger' = why
    /\ UNCHANGED <<pc, tableVars, topVars>>

\* A browser loads the page: the static layout with theme-switch value
\* False (line 85); the callbacks of the components in it run.
OpenSession ==
    /\ pc = "serving" /\ ~session
    /\ session' = TRUE
    /\ Round("page load", "theme-switch.value", [View EXCEPT !.theme = FALSE])

Serving == pc = "serving" /\ session

ToggleTheme ==
    /\ Serving
    /\ Round("theme-switch.value", "theme-switch.value", [View EXCEPT !.theme = ~theme])
    /\ UNCHANGED session

\* year.value is set to y: an offered option, or any other value a client
\* posts to the callback endpoint.
ChangeYear(y) ==
    /\ Serving /\ rendered
    /\ y # year
    /\ Round("year.value", "year.value", [View EXCEPT !.year = y])
    /\ UNCHANGED session

ChangeCompany(c) ==
    /\ Serving /\ rendered
    /\ c \in Range(companyOpts) /\ c # company
    /\ Round("company.value", "company.value", [View EXCEPT !.company = c,
                                           !.companyFor = year])
    /\ UNCHANGED session

ChangeIndustry(i) ==
    /\ Serving /\ rendered
    /\ i \in Range(industryOpts) \cup {None} /\ i # industry
    /\ Round("industry-filter.value", "industry-filter.value", [View EXCEPT !.industry = i])
    /\ UNCHANGED session

\* The multi-select gains one offered company at its end.
AddCompare(c) ==
    /\ Serving /\ rendered
    /\ c \in Range(compareOpts) \ Range(compare)
    /\ Round("companies_compare.value", "companies_compare.value",
             [View EXCEPT !.compare = Append(compare, c),
                          !.compareFor = year])
    /\ UNCHANGED session

\* The multi-select loses its k-th entry.
RemoveCompare(k) ==
    /\ Serving /\ rendered
    /\ k \in 1..Len(compare)
    /\ Round("companies_compare.value", "companies_compare.value",
             [View EXCEPT !.compare = SubSeq(compare, 1, k - 1) \o
                                      SubSeq(compare, k + 1, Len(compare)),
                          !.compareFor = year])
    /\ UNCHANGED session

\* The options of compare_metric (lines 141-142) and the ones chosen here.
Metrics == {"composite"} \cup Range(CATS)
MetricInputs == {"composite", "operational", "legal_compliance"}

ChangeMetric(m) ==
    /\ Serving /\ rendered
    /\ m \in MetricInputs /\ m # metric
    /\ Round("compare_metric.value", "compare_metric.value", [View EXCEPT !.metric = m])
    /\ UNCHANGED session

Next ==
    \/ Load
    \/ RunServer
    \/ OpenSession
    \/ ToggleTheme
    \/ \E y \in Range(YEARS) \cup {NoSuchYear} : ChangeYear(y)
    \/ \E c \in Range(companyOpts) : ChangeCompany(c)
    \/ \E i \in Range(industryOpts) \cup {None} : ChangeIndustry(i)
    \/ \E c \in Range(compareOpts) : AddCompare(c)
    \/ \E k \in 1..Len(compare) : RemoveCompare(k)
    \/ \E m \in MetricInputs : ChangeMetric(m)

Spec == Init /\ [][Next]_vars

\* ------------------------------------------------------ loading alone
\* Any header; the page is opened and the theme switched when the load
\* lets the server start.
InitLoad ==
    /\ pc = "read"
    /\ raw \in Sources(Headers, RowPool, MaxLoadRows)
    /\ wide = <<>> /\ YEARS = <<>> /\ error = NoError
    /\ NoView
    /\ topArgs = <<>> /\ topResult = <<>>

NextLoad ==
    \/ Load
    \/ RunServer
    \/ OpenSession
    \/ ToggleTheme

SpecLoad == InitLoad /\ [][NextLoad]_vars

\* ------------------------------------------------------ top_companies alone
InitTop ==
    /\ pc = "read"
    /\ raw \in Sources({h \in Headers : required \subseteq h}, TiePool,
                       MaxTopRows)
    /\ wide = <<>> /\ YEARS = <<>> /\ error = NoError
    /\ NoView
    /\ topArgs = <<>> /\ topResult = <<>>

\* top_companies(y, n) is called on the loaded table.
TopCall(y, n) ==
    /\ pc = "loaded"
    /\ topArgs' = <<y, n>>
    /\ \E tie \in TieOrders : topResult' = top_companies(y, n, tie)
    /\ UNCHANGED <<pc, tableVars, error, viewVars>>

NextTop ==
    \/ Load
    \/ \E y \in Range(YEARS) \cup {NoSuchYear}, n \in 0..MaxN : TopCall(y, n)

SpecTop == InitTop /\ [][NextTop]_vars

\* ====================================================== claims
CompaniesOf(y) == {wide[i].company : i \in Range(OfYear(y))}
IndustriesOf(y) == {wide[i].industry : i \in Range(OfYear(y))}
NoDuplicates(q) == \A j, k \in 1..Len(q) : q[j] = q[k] => j = k

\* c is the company of a row of year y that no row of year y beats on the
\* composite score.
IsTopCompany(c, y) ==
    \E i \in Range(OfYear(y)) :
        /\ wide[i].company = c
        /\ \A j \in Range(OfYear(y)) :
              ~QLess(wide[i].composite, wide[j].composite)

Loaded == pc \in {"loaded", "serving"}

\* C1: switching the theme toggle leaves the year, company, industry-filter,
\* comparison-list and comparison-metric values as they were immediately
\* before the switch, once the recomputation it triggers has finished.
C1_ThemeKeepsSelection ==
    [][(session /\ theme' # theme) =>
          /\ year' = year /\ company' = company /\ industry' = industry
          /\ compare' = compare /\ metric' = metric]_vars

\* C2: after the year control changes to a year y with at least one row, the
\* company and comparison options are exactly the distinct companies of the
\* rows of y, the industry options exactly their distinct industries, the
\* company value is a company with the highest composite of y, the
\* comparison value is top_companies(y, 8) and the industry filter is None.
C2_OptionsCascade ==
    (trigger = "year.value" /\ OfYear(year) # <<>>) =>
        /\ Range(companyOpts) = CompaniesOf(year)
        /\ NoDuplicates(companyOpts)
        /\ compareOpts = companyOpts
        /\ Range(industryOpts) = IndustriesOf(year)
        /\ NoDuplicates(industryOpts)
        /\ IsTopCompany(company, year)
        /\ \E tie \in TieOrders : compare = top_companies(year, DefaultN, tie)
        /\ industry = None

C2_Witness ==
    /\ trigger = "year.value" /\ year = "2021" /\ company = "B"
    /\ compare = <<"B">> /\ industryOpts = <<"I2">>

\* C3: no radar is computed from a company value chosen for another year
\* than the year value it is computed with, and no bar chart from a
\* comparison list chosen for another year; the figures on show are those of
\* the current year and selections.
C3_NoStaleSelection ==
    rendered =>
        /\ ~staleRadar /\ ~staleBars
        /\ companyFor = year /\ compareFor = year
        /\ radar.kind = "radar" /\ radar.title = <<company, year>>
        /\ company \in CompaniesOf(year) \cup {None}
        /\ Range(compare) \subseteq CompaniesOf(year)
        /\ bars.kind = "bar" => /\ bars.title[1] = year
                                /\ Range(bars.y) \subseteq Range(compare)

C3_Witness ==
    /\ trigger = "year.value" /\ {"_radar", "_bars"} \subseteq fired
    /\ year = "2021" /\ radar.name = "B" /\ "A" \in CompaniesOf("2022")
    /\ bars.kind = "bar"

\* C4: after the year control changes to a value no row has, no callback has
\* raised, the three option lists are empty, the company value is None, the
\* comparison value is empty, the radar's values are all zero and the bar
\* chart and the heatmap are empty figures, whatever the other controls hold.
C4_EmptyYear ==
    (trigger = "year.value" /\ OfYear(year) = <<>>) =>
        /\ error = NoError
        /\ companyOpts = <<>> /\ industryOpts = <<>> /\ compareOpts = <<>>
        /\ company = None /\ compare = <<>>
        /\ radar.kind = "radar" /\ radar.r = <<0, 0, 0, 0, 0, 0>>
        /\ bars = EmptyFigure /\ heatmap = EmptyFigure

C4_Witness ==
    /\ trigger = "year.value" /\ year = NoSuchYear /\ OfYear(year) = <<>>
    /\ theme = TRUE /\ metric = "operational" /\ Len(wide) = 2

\* res lists the companies of the first Min(n, rows of y) rows of year y in
\* descending composite order, rows of equal composite in row order.
IsStableTop(res, y, n) ==
    LET rows == Range(OfYear(y))
        m == Min(n, Cardinality(rows))
        Better(a, b) ==
            \/ QLess(wide[b].composite, wide[a].composite)
            \/ QEq(wide[a].composite, wide[b].composite) /\ a < b
    IN /\ Len(res) = m
       /\ \E p \in [1..m -> rows] :
             /\ \A k \in 1..m : res[k] = wide[p[k]].company
             /\ \A k \in 1..(m - 1) : Better(p[k], p[k + 1])
             /\ \A j \in rows \ Range(p), k \in 1..m : Better(p[k], j)

\* C5: top_companies(year, n) returns the companies of the Min(n, rows of
\* that year) rows of highest composite, in descending composite order, rows
\* of equal composite in original row order.
C5_TopCompaniesStable ==
    topArgs # <<>> => IsStableTop(topResult, topArgs[1], topArgs[2])

\* C6: a header that, stripped, lacks a required column stops the load with
\* an error naming exactly the missing required columns; then no derived
\* column, no table and no session exists; and the load stops for no other
\* reason (a missing year or industry column never stops it).
C6_SchemaErrorStops ==
    LET absent == {n \in required : \A c \in raw.columns : c.name # n}
    IN /\ pc = "failed" =>
            /\ absent # {}
            /\ error = [type |-> "ValueError", missing |-> absent]
            /\ wide = <<>> /\ YEARS = <<>>
            /\ \A i \in 1..Len(raw.rows) :
                  DOMAIN raw.rows[i] \cap (Range(CATS) \cup {"composite"}) = {}
            /\ ~session /\ ~rendered
       /\ (Loaded \/ session) => absent = {}
       /\ (pc # "read" /\ absent = {}) => Loaded

C6_Witness ==
    /\ pc = "failed" /\ error.missing = {"RD_3", "RD_6"}
    /\ \E c \in raw.columns : c.name = "year"
    /\ \A c \in raw.columns : c.name # "industry"

\* C7: every row of the shaped table has market = RD_0, credit = RD_1,
\* operational = RD_2 + RD_5, legal_compliance = RD_3, technical = RD_4 +
\* RD_6 and five times its composite equal to the sum of the five, in every
\* state from the load on.
C7_DerivedColumns ==
    Loaded =>
        /\ Len(wide) = Len(raw.rows)
        /\ \A i \in 1..Len(wide) :
              LET r == raw.rows[i]
                  w == wide[i]
              IN /\ w.market = r.RD_0
                 /\ w.credit = r.RD_1
                 /\ w.operational = r.RD_2 + r.RD_5
                 /\ w.legal_compliance = r.RD_3
                 /\ w.technical = r.RD_4 + r.RD_6
                 /\ 5 * w.composite.num =
                       (w.market + w.credit + w.operational
                        + w.legal_compliance + w.technical) * w.composite.den

C7_Witness ==
    /\ trigger = "compare_metric.value" /\ Len(wide) = 2
    /\ wide[1].operational = 9 /\ wide[1].technical = 12
    /\ wide[1].composite = [num |-> 28, den |-> 5]

\* C8: when the page has loaded and the first recomputation has finished,
\* the year value is the greatest year of the table (the sentinel when the
\* CSV has no year column), the company value a company with the highest
\* composite of that year, the comparison list top_companies(that year, 8)
\* and the comparison metric the composite.
C8_InitialDefaults ==
    (trigger = "page load" /\ wide # <<>>) =>
        /\ rendered
        /\ \E i \in 1..Len(wide) : wide[i].year = year
        /\ \A i \in 1..Len(wide) : YearKey[wide[i].year] <= YearKey[year]
        /\ IsTopCompany(company, year)
        /\ \E tie \in TieOrders : compare = top_companies(year, DefaultN, tie)
        /\ metric = "composite"

C8_Witness ==
    /\ trigger = "page load" /\ Len(YEARS) = 2 /\ year = "2022"
    /\ company = "A" /\ compare = <<"A">> /\ metric = "composite"

C8_WitnessSentinel ==
    /\ trigger = "page load" /\ year = YEAR_SENTINEL /\ Len(compare) = 2

\* C9: a change of one control recomputes exactly the outputs of the
\* callbacks that declare the control as an input.
C9_OnlyDeclaredOutputs ==
    (rendered /\ trigger # "page load") => fired = Dependents(trigger)

\* C10: the industry filter decides no output: the figures and option lists
\* on show are those computed from the year, company, comparison list,
\* metric and theme alone, and a change of the filter runs no callback.
C10_IndustryFilterInert ==
    rendered =>
        /\ radar = _radar(year, company, theme)
        /\ heatmap = _heatmap(year, theme)
        /\ \E tie \in TieOrders : bars = _bars(year, compare, metric, theme, tie)
        /\ \E tie \in TieOrders :
              LET out == _options_by_year(year, tie)
              IN /\ companyOpts = out.companyOpts
                 /\ industryOpts = out.industryOpts
                 /\ compareOpts = out.compareOpts
        /\ trigger = "industry-filter.value" => fired = {}

C10_Witness ==
    /\ trigger = "industry-filter.value" /\ industry = "I2"
    /\ heatmap.kind = "heatmap" /\ Len(heatmap.z[1]) = 2
    /\ Len(industryOpts) = 2
====
